---- MODULE Spec2Model ----
(***************************************************************************)
(* DesktopStreamer: a supervisor for an encoder (avconv) and a streamer    *)
(* (cvlc) process joined by a pipe, its settings and command lines, and    *)
(* the CLI control surface that drives it.                                 *)
(*                                                                         *)
(* The control thread is a call stack of frames; every step of start(),    *)
(* stop() and show_cli() acts on the top frame.  The child processes run   *)
(* concurrently with the control thread and exit on their own, on          *)
(* terminate (if they honour it) or on kill.                               *)
(***************************************************************************)
EXTENDS Integers, Sequences, FiniteSets, TLC

VARIABLES
  COMMANDS,     \* class attribute COMMANDS: command name -> path or None
  proc_avconv,  \* attribute proc_avconv: a pid, or NoProc while unset
  proc_vlc,     \* attribute proc_vlc: a pid, or NoProc while unset
  procs,        \* the operating system's view of every child ever spawned
  nspawned,     \* number of children spawned so far
  generation,   \* number of start() calls that reached the first Popen
  pipes,        \* pids whose stdout read end the supervisor holds open
  stack,        \* call stack of the control thread, innermost frame last
  exc,          \* outcome of the last start() call seen by its caller
  handler,      \* TRUE once show_cli() installed its SIGINT handler
  sigints,      \* number of interrupts delivered so far
  retcode,      \* {} until show_cli() or show_gui() returns, then {its value}
  attrs,        \* the instance's setting attributes: key -> value
  cmd_avconv,   \* attribute cmd_avconv: the encoder's argument vector
  cmd_vlc,      \* attribute cmd_vlc: the streamer's argument vector
  cfg_file,     \* the file system at the path cfg_file
  ctor,         \* position of __init__ and the arguments it was given
  warned,       \* TRUE when the method called last printed the load warning
  button,       \* the text of the GUI's button
  return_code   \* attribute return_code of the GUI

procvars == <<proc_avconv, proc_vlc, procs, nspawned, generation, pipes>>
clivars == <<handler, sigints, retcode>>
setvars == <<attrs, cmd_avconv, cmd_vlc, cfg_file, ctor, warned>>
guivars == <<button, return_code>>
vars == <<COMMANDS, procvars, stack, exc, clivars, guivars, setvars>>

None == "None"

\* getattr(self, proc, None): the value of a process attribute not yet set.
NoProc == 0

\* Bounds of the model.
MaxSpawn == 4     \* children spawned in one behaviour
MaxCount == 3     \* the per-call cycle and sleep counters saturate here
MaxSigint == 2    \* interrupts delivered in one behaviour
MaxKeys == 2      \* settings given in one call
MaxStored == 1    \* settings that differ from the defaults in a stored file

Pids == 1..MaxSpawn
CmdNames == {"avconv", "cvlc"}

Min(a, b) == IF a < b THEN a ELSE b

(***************************************************************************)
(* Command lookup                                                          *)
(***************************************************************************)

\* get_command_path: `which command`, stripped, or None when which fails.
get_command_path(command, found) ==
  IF command \in found THEN "/usr/bin/" \o command ELSE None

missing_commands == {cmd \in DOMAIN COMMANDS : COMMANDS[cmd] = None}

(***************************************************************************)
(* Process handles                                                         *)
(***************************************************************************)

\* A child that was never spawned.
Unborn ==
  [st |-> "unborn", sig |-> "none", cause |-> "none", gen |-> 0,
   stdin |-> NoProc]

processes == {proc_avconv, proc_vlc} \ {NoProc}

\* Popen.poll() is None: the child has not reported an exit status.
running_processes == {proc \in processes : procs[proc].st = "running"}

\* Every child the operating system still runs, tracked or not.
Alive == {p \in Pids : procs[p].st = "running"}

\* os.kill(pid, sig): a pending kill is never replaced by a terminate.
send_signal(p, s) ==
  [procs[p] EXCEPT !.sig = IF @ = "kill" THEN "kill" ELSE s]

terminate(targets) ==
  [p \in Pids |-> IF p \in targets THEN send_signal(p, "term") ELSE procs[p]]

kill(targets) ==
  [p \in Pids |-> IF p \in targets THEN send_signal(p, "kill") ELSE procs[p]]

(***************************************************************************)
(* The control thread's call stack                                         *)
(***************************************************************************)

\* A frame: the function, its position, its locals (terminated, popen) and
\* what the call has done so far (atcall, cycles, sleeps, terms, kills, late).
Frame(fn, pc) ==
  [fn |-> fn, pc |-> pc, terminated |-> FALSE, popen |-> NoProc,
   atcall |-> {}, cycles |-> 0, sleeps |-> 0, terms |-> {}, kills |-> {},
   late |-> FALSE]

top == stack[Len(stack)]
Pop == SubSeq(stack, 1, Len(stack) - 1)
SetTop(f) == [stack EXCEPT ![Len(stack)] = f]
Call(caller, callee) == Append(SetTop(caller), callee)

\* The frame of a stop() call: terminated = False.
StopFrame == [Frame("stop", "while") EXCEPT !.atcall = running_processes]

(***************************************************************************)
(* DesktopStreamer.start                                                   *)
(***************************************************************************)

\* Popen succeeded: the child with the next pid runs, in generation g; its
\* standard input is the stdout pipe of the child stdin, or is inherited.
Spawned(g, stdin) ==
  [procs EXCEPT ![nspawned + 1] =
     [st |-> "running", sig |-> "none", cause |-> "none", gen |-> g,
      stdin |-> stdin]]

\* The frame of start() past its checks; atcall is what it found running.
Spawning ==
  [top EXCEPT !.pc = "popen_avconv", !.atcall = running_processes]

\* start() that spawns without stopping what is running.
start_check_no_stop ==
  /\ top.fn = "start" /\ top.pc = "check"
  /\ IF missing_commands # {}
     THEN /\ stack' = Pop
          /\ exc' = "DesktopStreamerError"
     ELSE /\ stack' = SetTop(Spawning)
          /\ exc' = exc
  /\ UNCHANGED <<COMMANDS, procvars, clivars, guivars,
                 setvars>>

\* start() that stops what is running before it looks for missing commands.
start_check_stop_first ==
  /\ top.fn = "start" /\ top.pc = "check"
  /\ IF running_processes # {}
     THEN /\ stack' = Call(top, StopFrame)
          /\ exc' = exc
     ELSE IF missing_commands # {}
          THEN /\ stack' = Pop
               /\ exc' = "DesktopStreamerError"
          ELSE /\ stack' = SetTop(Spawning)
               /\ exc' = exc
  /\ UNCHANGED <<COMMANDS, procvars, clivars, guivars,
                 setvars>>

\* Lines 236-242: raise on missing commands, else stop what is running.
start_check ==
  /\ top.fn = "start" /\ top.pc = "check"
  /\ IF missing_commands # {}
     THEN /\ stack' = Pop
          /\ exc' = "DesktopStreamerError"
     ELSE /\ stack' = IF running_processes # {}
                      THEN Call(Spawning, StopFrame)
                      ELSE SetTop(Spawning)
          /\ exc' = exc
  /\ UNCHANGED <<COMMANDS, procvars, clivars, guivars,
                 setvars>>

\* Line 244, right-hand side: Popen(self.cmd_avconv, stdout=PIPE).
start_popen_avconv ==
  /\ top.fn = "start" /\ top.pc = "popen_avconv"
  /\ \/ /\ nspawned < MaxSpawn
        /\ procs' = Spawned(generation + 1, NoProc)
        /\ nspawned' = nspawned + 1
        /\ generation' = generation + 1
        /\ pipes' = pipes \cup {nspawned + 1}
        /\ stack' = SetTop([top EXCEPT !.pc = "assign_avconv",
                                       !.popen = nspawned + 1])
        /\ exc' = exc
     \/ /\ stack' = Pop
        /\ exc' = "OSError"
        /\ UNCHANGED <<procs, nspawned, generation, pipes>>
  /\ UNCHANGED <<COMMANDS, proc_avconv, proc_vlc, clivars, guivars,
                 setvars>>

\* Line 244, the assignment; the Popen object it replaces is released.
start_assign_avconv ==
  /\ top.fn = "start" /\ top.pc = "assign_avconv"
  /\ proc_avconv' = top.popen
  /\ pipes' = pipes \ {proc_avconv}
  /\ stack' = SetTop([top EXCEPT !.pc = "popen_vlc", !.popen = NoProc])
  /\ UNCHANGED <<COMMANDS, proc_vlc, procs, nspawned, generation, exc, clivars, guivars,
                 setvars>>

\* Lines 245-247, right-hand side: Popen(self.cmd_vlc, stdin=..., stdout=PIPE).
start_popen_vlc ==
  /\ top.fn = "start" /\ top.pc = "popen_vlc"
  /\ \/ /\ nspawned < MaxSpawn
        /\ procs' = Spawned(generation, proc_avconv)
        /\ nspawned' = nspawned + 1
        /\ stack' = SetTop([top EXCEPT !.pc = "assign_vlc",
                                       !.popen = nspawned + 1])
        /\ exc' = exc
     \/ /\ stack' = Pop
        /\ exc' = "OSError"
        /\ UNCHANGED <<procs, nspawned>>
  /\ UNCHANGED <<COMMANDS, proc_avconv, proc_vlc, generation, pipes, clivars, guivars,
                 setvars>>

\* Lines 245-247, the assignment.
start_assign_vlc ==
  /\ top.fn = "start" /\ top.pc = "assign_vlc"
  /\ proc_vlc' = top.popen
  /\ stack' = SetTop([top EXCEPT !.pc = "close", !.popen = NoProc])
  /\ UNCHANGED <<COMMANDS, proc_avconv, procs, nspawned, generation, pipes,
                 exc, clivars, guivars,
                 setvars>>

\* start() that keeps its copy of the encoder's stdout open.
start_close_omitted ==
  /\ top.fn = "start" /\ top.pc = "close"
  /\ pipes' = pipes
  /\ stack' = Pop
  /\ exc' = "ok"
  /\ UNCHANGED <<COMMANDS, proc_avconv, proc_vlc, procs, nspawned, generation,
                 clivars, guivars,
                 setvars>>

\* Line 248: self.proc_avconv.stdout.close(), then start() returns.
start_close ==
  /\ top.fn = "start" /\ top.pc = "close"
  /\ pipes' = pipes \ {proc_avconv}
  /\ stack' = Pop
  /\ exc' = "ok"
  /\ UNCHANGED <<COMMANDS, proc_avconv, proc_vlc, procs, nspawned, generation,
                 clivars, guivars,
                 setvars>>

(***************************************************************************)
(* DesktopStreamer.stop                                                    *)
(***************************************************************************)

\* stop() as a do-while loop: the first cycle runs unconditionally.
stop_do_while ==
  /\ top.fn = "stop" /\ top.pc = "while"
  /\ stack' = IF running_processes # {} \/ ~top.terminated
              THEN SetTop([top EXCEPT !.pc = "signal"])
              ELSE Pop
  /\ UNCHANGED <<COMMANDS, procvars, exc, clivars, guivars,
                 setvars>>

\* Line 258: the loop condition; stop() returns when nothing is running.
stop_while ==
  /\ top.fn = "stop" /\ top.pc = "while"
  /\ stack' = IF running_processes # {}
              THEN SetTop([top EXCEPT !.pc = "signal"])
              ELSE Pop
  /\ UNCHANGED <<COMMANDS, procvars, exc, clivars, guivars,
                 setvars>>

\* One signalling cycle of stop(): mode is "kill" or "term", targets the
\* processes signalled; first tells whether it counts as the terminate cycle.
Cycle(mode, targets, first) ==
  LET cycle == [top EXCEPT !.pc = "sleep", !.cycles = Min(@ + 1, MaxCount)]
  IN IF mode = "kill"
     THEN /\ procs' = kill(targets)
          /\ stack' = SetTop([cycle EXCEPT !.kills = @ \cup targets])
     ELSE /\ procs' = terminate(targets)
          /\ stack' = SetTop([cycle EXCEPT !.terms = @ \cup targets,
                                           !.terminated = first])

stopunchanged ==
  <<COMMANDS, proc_avconv, proc_vlc, nspawned, generation, pipes, exc, clivars, guivars,
    setvars>>

\* stop() with the test inverted: kill first, terminate afterwards.
stop_signal_kill_first ==
  /\ top.fn = "stop" /\ top.pc = "signal"
  /\ Cycle(IF top.cycles = 0 THEN "kill" ELSE "term", running_processes, TRUE)
  /\ UNCHANGED stopunchanged

\* stop() that never sets terminated: every cycle terminates.
stop_signal_never_kills ==
  /\ top.fn = "stop" /\ top.pc = "signal"
  /\ Cycle("term", running_processes, FALSE)
  /\ UNCHANGED stopunchanged

\* stop() whose kill cycle signals the first running process only.
stop_signal_kills_one ==
  /\ top.fn = "stop" /\ top.pc = "signal"
  /\ IF top.terminated
     THEN Cycle("kill", {p \in running_processes :
                          \A q \in running_processes : p <= q}, TRUE)
     ELSE Cycle("term", running_processes, TRUE)
  /\ UNCHANGED stopunchanged

\* Lines 259-263: kill what is running if terminated, else terminate it.
stop_signal ==
  /\ top.fn = "stop" /\ top.pc = "signal"
  /\ Cycle(IF top.terminated THEN "kill" ELSE "term", running_processes, TRUE)
  /\ UNCHANGED stopunchanged

\* Line 264: time.sleep(seconds) is over.
stop_sleep ==
  /\ top.fn = "stop" /\ top.pc = "sleep"
  /\ stack' = SetTop([top EXCEPT
       !.pc = "while",
       !.sleeps = Min(@ + 1, MaxCount),
       !.late = @ \/ \E p \in running_processes : procs[p].sig = "kill"])
  /\ UNCHANGED <<COMMANDS, procvars, exc, clivars, guivars,
                 setvars>>

(***************************************************************************)
(* The child processes                                                     *)
(***************************************************************************)

Exited(p, why) ==
  [procs EXCEPT ![p] = [@ EXCEPT !.st = "exited", !.sig = "none",
                                 !.cause = why]]

envunchanged ==
  <<COMMANDS, proc_avconv, proc_vlc, nspawned, generation, pipes, stack, exc,
    clivars, guivars, setvars>>

\* A child ends on its own (crash, end of input, ...).
exit_self(p) ==
  /\ procs[p].st = "running"
  /\ procs' = Exited(p, "self")
  /\ UNCHANGED envunchanged

\* A child honours a pending terminate signal.
exit_on_terminate(p) ==
  /\ procs[p].st = "running" /\ procs[p].sig = "term"
  /\ procs' = Exited(p, "term")
  /\ UNCHANGED envunchanged

\* A pending kill signal ends the child.
exit_on_kill(p) ==
  /\ procs[p].st = "running" /\ procs[p].sig = "kill"
  /\ procs' = Exited(p, "kill")
  /\ UNCHANGED envunchanged

(***************************************************************************)
(* A caller of the class: any sequence of start(), stop() and lookups      *)
(***************************************************************************)

call_start ==
  /\ top.fn = "caller"
  /\ nspawned + 2 <= MaxSpawn
  /\ stack' = Call(top, Frame("start", "check"))
  /\ exc' = "none"
  /\ UNCHANGED <<COMMANDS, procvars, clivars, guivars,
                 setvars>>

call_stop ==
  /\ top.fn = "caller"
  /\ stack' = Call(top, StopFrame)
  /\ UNCHANGED <<COMMANDS, procvars, exc, clivars, guivars,
                 setvars>>

\* setup_command_paths: look every command up again.
setup_command_paths ==
  /\ top.fn = "caller"
  /\ \E found \in SUBSET CmdNames :
       COMMANDS' = [cmd \in CmdNames |-> get_command_path(cmd, found)]
  /\ UNCHANGED <<procvars, stack, exc, clivars, guivars,
                 setvars>>

(***************************************************************************)
(* cli.show_cli                                                            *)
(***************************************************************************)

\* The process still executes show_cli(): it neither returned nor raised.
CliRunning == stack[1].fn = "show_cli" /\ stack[1].pc \notin {"return", "raised"}

\* Line 28: signal.signal(SIGINT, lambda signal, frame: streamer.stop()).
cli_signal ==
  /\ top.fn = "show_cli" /\ top.pc = "signal"
  /\ handler' = TRUE
  /\ stack' = SetTop([top EXCEPT !.pc = "start"])
  /\ UNCHANGED <<COMMANDS, procvars, exc, sigints, retcode,
                 guivars, setvars>>

\* Line 30: streamer.start().
cli_start ==
  /\ top.fn = "show_cli" /\ top.pc = "start"
  /\ nspawned + 2 <= MaxSpawn
  /\ stack' = Call([top EXCEPT !.pc = "started"], Frame("start", "check"))
  /\ exc' = "none"
  /\ UNCHANGED <<COMMANDS, procvars, clivars, guivars,
                 setvars>>

\* Lines 31-34: start() returned and signal.pause() blocks, or start() raised:
\* DesktopStreamerError is caught and 1 returned, anything else propagates.
cli_started ==
  /\ top.fn = "show_cli" /\ top.pc = "started"
  /\ IF exc = "DesktopStreamerError"
     THEN /\ stack' = SetTop([top EXCEPT !.pc = "return"])
          /\ retcode' = {1}
     ELSE /\ stack' = SetTop([top EXCEPT !.pc = IF exc = "ok" THEN "pause"
                                                ELSE "raised"])
          /\ retcode' = retcode
  /\ UNCHANGED <<COMMANDS, procvars, exc, handler, sigints,
                 guivars, setvars>>

\* Line 35: signal.pause() has returned; return 0.
cli_return ==
  /\ top.fn = "show_cli" /\ top.pc = "resumed"
  /\ stack' = SetTop([top EXCEPT !.pc = "return"])
  /\ retcode' = {0}
  /\ UNCHANGED <<COMMANDS, procvars, exc, handler, sigints,
                 guivars, setvars>>

\* The frame an interrupt leaves below its handler: pause() returns once the
\* handler has run, everything else resumes where it was.
Interrupted == IF top.fn = "show_cli" /\ top.pc = "pause"
               THEN [top EXCEPT !.pc = "resumed"]
               ELSE top

\* An interrupt whose handler does not stop the streamer.
sigint_no_stop ==
  /\ handler /\ CliRunning
  /\ sigints < MaxSigint
  /\ sigints' = sigints + 1
  /\ stack' = SetTop(Interrupted)
  /\ UNCHANGED <<COMMANDS, procvars, exc, handler, retcode,
                 guivars, setvars>>

\* SIGINT: the handler of line 28 runs streamer.stop() on top of whatever
\* the control thread is doing.
sigint ==
  /\ handler /\ CliRunning
  /\ sigints < MaxSigint
  /\ sigints' = sigints + 1
  /\ stack' = Call(Interrupted, StopFrame)
  /\ UNCHANGED <<COMMANDS, procvars, exc, handler, retcode,
                 guivars, setvars>>

(***************************************************************************)
(* Settings and command lines                                              *)
(***************************************************************************)

\* SETTINGS: the keys in their order, and the defaults.
SETTINGS == <<"audio", "video", "res_in", "res_out", "framerate", "port">>
SettingKeys == {SETTINGS[i] : i \in DOMAIN SETTINGS}
BoolKeys == {"audio", "video"}
ResKeys == {"res_in", "res_out"}
NumKeys == {"framerate", "port"}

\* A number given as an int, and one given as a string of digits.
Num(n) == [t |-> "int", n |-> n]
Digits(n) == [t |-> "str", n |-> n]

DefaultFramerate == 25
DefaultPort == 1312

Defaults ==
  [audio |-> TRUE, video |-> TRUE, res_in |-> None, res_out |-> None,
   framerate |-> Num(DefaultFramerate), port |-> Num(DefaultPort)]

\* The function with no key: an instance without attributes, no keyword.
Empty == [k \in {} |-> TRUE]

\* get_screensize(as_string=True) on the display the program runs on.
get_screensize == "1920x1080"

\* int(value) of an int or of a string of digits.
int(value) == Num(value.n)

\* __setattr__: res_in None becomes the screen size, res_out None becomes
\* res_in, framerate and port are cast to int.
setattr(a, name, value) ==
  LET stored == IF name = "res_in" /\ value = None THEN get_screensize
                ELSE IF name = "res_out" /\ value = None THEN a["res_in"]
                ELSE IF name \in NumKeys THEN int(value)
                ELSE value
  IN [k \in DOMAIN a \cup {name} |-> IF k = name THEN stored ELSE a[k]]

\* shlex.split(line, posix=False) of a command line given as its fields:
\* the words of every field in order; an empty field leaves no word.
RECURSIVE shlex_split(_)
shlex_split(fields) ==
  IF fields = <<>> THEN <<>> ELSE Head(fields) \o shlex_split(Tail(fields))

\* setup(): both command lines from the attributes a and COMMANDS.
setup(a) ==
  LET path_avconv == COMMANDS["avconv"]
      av_audio == <<"-f", "alsa", "-ac", "2", "-i", "pulse",
                    "-acodec", "libmp3lame">>
      av_video == <<"-f", "x11grab", "-r", ToString(a["framerate"].n),
                    "-s", a["res_in"], "-i", ":0.0", "-vcodec", "libx264",
                    "-preset", "ultrafast", "-s", a["res_out"]>>
      path_vlc == COMMANDS["cvlc"]
  IN [avconv |-> shlex_split(<<
        <<IF path_avconv # None THEN path_avconv ELSE "avconv">>,
        IF a["audio"] THEN av_audio ELSE <<>>,
        IF a["video"] THEN av_video ELSE <<>>,
        <<"-threads", "0", "-f", "mpegts", "-">> >>),
      vlc |-> shlex_split(<<
        <<IF path_vlc # None THEN path_vlc ELSE "cvlc">>,
        <<"-I", "dummy", "-">>,
        <<"--sout=#std{access=http,mux=ts,dst=:"
            \o ToString(a["port"].n) \o "}">> >>)]

\* Lines 149-158: store the given settings key by key, in the order of
\* SETTINGS from position i on; changes tells whether any was stored.
RECURSIVE store_settings(_, _, _)
store_settings(a, settings, i) ==
  IF i > Len(SETTINGS) THEN [attrs |-> a, changes |-> FALSE]
  ELSE LET key == SETTINGS[i] IN
       IF key \notin DOMAIN settings
       THEN store_settings(a, settings, i + 1)
       ELSE IF key \in DOMAIN a /\ settings[key] = a[key]
       THEN store_settings(a, settings, i + 1)
       ELSE [store_settings(setattr(a, key, settings[key]), settings, i + 1)
               EXCEPT !.changes = TRUE]

\* set_settings() that stores the settings and never rebuilds the commands.
set_settings_no_setup(a, c, settings) ==
  [attrs |-> store_settings(a, settings, 1).attrs, cmds |-> c]

\* set_settings(**settings) on attributes a and command lines c.
set_settings(a, c, settings) ==
  LET r == store_settings(a, settings, 1)
  IN [attrs |-> r.attrs, cmds |-> IF r.changes THEN setup(r.attrs) ELSE c]

\* json.dump and json.load of one value.
json_dump(key, v) ==
  IF key \in BoolKeys THEN (IF v THEN <<"true">> ELSE <<"false">>)
  ELSE IF key \in NumKeys
  THEN (IF v.t = "int" THEN <<"number", v.n>> ELSE <<"string", v.n>>)
  ELSE IF v = None THEN <<"null">> ELSE <<"string", v>>

json_load(key, token) ==
  IF token[1] = "true" THEN TRUE
  ELSE IF token[1] = "false" THEN FALSE
  ELSE IF token[1] = "null" THEN None
  ELSE IF token[1] = "number" THEN Num(token[2])
  ELSE IF key \in NumKeys THEN Digits(token[2])
  ELSE token[2]

\* The property settings, and the JSON text of a dictionary and back.
settings_of(a) == [k \in DOMAIN a \cap SettingKeys |-> a[k]]
dump(d) == [k \in DOMAIN d |-> json_dump(k, d[k])]
load(text) == [k \in DOMAIN text |-> json_load(k, text[k])]

\* What is at the path cfg_file: no directory, a directory without the
\* file, the file with its text, or a file the user has no permission on.
NoDir == [st |-> "nodir", text |-> Empty]
DirOnly == [st |-> "dir", text |-> Empty]
File(text) == [st |-> "file", text |-> text]
NoPermission == [st |-> "noperm", text |-> Empty]

\* save_settings(): makedirs unless the file exists, which raises OSError
\* when the directory is there already; then the settings are written,
\* unless open() raises IOError.
save_settings(a, f) ==
  IF f.st \in {"dir", "noperm"}
  THEN [ok |-> FALSE, file |-> f]
  ELSE [ok |-> TRUE, file |-> File(dump(settings_of(a)))]

\* load_settings() that prints nothing when open() fails.
load_settings_silent(a, c, f) ==
  IF f.st = "file"
  THEN LET r == set_settings(a, c, load(f.text))
       IN [attrs |-> r.attrs, cmds |-> r.cmds, warned |-> FALSE]
  ELSE [attrs |-> a, cmds |-> c, warned |-> FALSE]

\* load_settings(): set the settings read, or warn when open() fails.
load_settings(a, c, f) ==
  IF f.st = "file"
  THEN LET r == set_settings(a, c, load(f.text))
       IN [attrs |-> r.attrs, cmds |-> r.cmds, warned |-> FALSE]
  ELSE [attrs |-> a, cmds |-> c, warned |-> TRUE]

\* The values a keyword argument is given in the model.
Values(k) ==
  IF k \in BoolKeys THEN BOOLEAN
  ELSE IF k = "res_in" THEN {None, "800x600"}
  ELSE IF k = "res_out" THEN {None, "1280x720"}
  ELSE IF k = "framerate" THEN {Num(DefaultFramerate), Digits(30)}
  ELSE {Num(DefaultPort), Num(8080)}

RECURSIVE Assignments(_)
Assignments(D) ==
  IF D = {} THEN {Empty}
  ELSE LET k == CHOOSE x \in D : TRUE
       IN {[x \in DOMAIN f \cup {k} |-> IF x = k THEN v ELSE f[x]] :
             f \in Assignments(D \ {k}), v \in Values(k)}

\* The keyword arguments with at most n keys.
Kwargs(n) ==
  UNION {Assignments(D) : D \in {D \in SUBSET SettingKeys : Cardinality(D) <= n}}

\* The keyword arguments of one call in the model.
CallKwargs == Kwargs(MaxKeys)

\* The keyword arguments that change one setting.
OneKeyword == UNION {Assignments({k}) : k \in SettingKeys}

\* The attributes of an instance constructed with the keywords settings.
Constructed(settings) ==
  store_settings(store_settings(Empty, Defaults, 1).attrs, settings, 1).attrs

\* The files an earlier run saved after it was given at most n keywords.
StoredFiles(n) ==
  {File(dump(settings_of(Constructed(settings)))) : settings \in Kwargs(n)}

InitialFiles == StoredFiles(MaxStored)

\* __init__ after it returned and another method was called: its arguments
\* are gone.
Live ==
  [pc |-> "live", load |-> FALSE, save |-> FALSE, passed |-> Empty,
   file0 |-> NoDir]

setunchanged == <<procvars, stack, exc, clivars, guivars>>

\* Line 95: self.setup_command_paths().
init_paths ==
  /\ ctor.pc = "paths"
  /\ \E found \in SUBSET CmdNames :
       COMMANDS' = [cmd \in CmdNames |-> get_command_path(cmd, found)]
  /\ ctor' = [ctor EXCEPT !.pc = "defaults"]
  /\ UNCHANGED <<attrs, cmd_avconv, cmd_vlc, cfg_file, warned, setunchanged>>

\* Line 97: self.set_settings(**self.SETTINGS).
init_defaults ==
  /\ ctor.pc = "defaults"
  /\ \E r \in {set_settings(attrs, [avconv |-> cmd_avconv, vlc |-> cmd_vlc],
                           Defaults)} :
        /\ attrs' = r.attrs
        /\ cmd_avconv' = r.cmds.avconv
        /\ cmd_vlc' = r.cmds.vlc
  /\ ctor' = [ctor EXCEPT !.pc = "load"]
  /\ UNCHANGED <<COMMANDS, cfg_file, warned, setunchanged>>

\* __init__ that ignores load.
init_load_ignored ==
  /\ ctor.pc = "load"
  /\ \E load_ \in BOOLEAN :
       ctor' = [ctor EXCEPT !.pc = "settings", !.load = load_]
  /\ UNCHANGED <<COMMANDS, attrs, cmd_avconv, cmd_vlc, cfg_file, warned,
                 setunchanged>>

\* Lines 99-100: if load: self.load_settings().
init_load ==
  /\ ctor.pc = "load"
  /\ \E load_ \in BOOLEAN :
       LET c == [avconv |-> cmd_avconv, vlc |-> cmd_vlc]
           r == IF load_ THEN load_settings(attrs, c, cfg_file)
                ELSE [attrs |-> attrs, cmds |-> c, warned |-> warned]
       IN /\ attrs' = r.attrs
          /\ cmd_avconv' = r.cmds.avconv
          /\ cmd_vlc' = r.cmds.vlc
          /\ warned' = r.warned
          /\ ctor' = [ctor EXCEPT !.pc = "settings", !.load = load_]
  /\ UNCHANGED <<COMMANDS, cfg_file, setunchanged>>

\* Line 102: self.set_settings(**settings).
init_settings ==
  /\ ctor.pc = "settings"
  /\ \E settings \in CallKwargs :
       \E r \in {set_settings(attrs, [avconv |-> cmd_avconv, vlc |-> cmd_vlc],
                             settings)} :
          /\ attrs' = r.attrs
          /\ cmd_avconv' = r.cmds.avconv
          /\ cmd_vlc' = r.cmds.vlc
          /\ ctor' = [ctor EXCEPT !.pc = "save", !.passed = settings]
  /\ UNCHANGED <<COMMANDS, cfg_file, warned, setunchanged>>

\* Lines 104-105: if save: self.save_settings(); an OSError ends __init__.
init_save ==
  /\ ctor.pc = "save"
  /\ \E save_ \in BOOLEAN :
       LET r == IF save_ THEN save_settings(attrs, cfg_file)
                ELSE [ok |-> TRUE, file |-> cfg_file]
       IN /\ cfg_file' = r.file
          /\ ctor' = [ctor EXCEPT !.pc = IF r.ok THEN "setup" ELSE "raised",
                                  !.save = save_]
  /\ UNCHANGED <<COMMANDS, attrs, cmd_avconv, cmd_vlc, warned, setunchanged>>

\* Line 107: self.setup(); __init__ returns.
init_setup ==
  /\ ctor.pc = "setup"
  /\ cmd_avconv' = setup(attrs).avconv
  /\ cmd_vlc' = setup(attrs).vlc
  /\ ctor' = [ctor EXCEPT !.pc = "done"]
  /\ UNCHANGED <<COMMANDS, attrs, cfg_file, warned, setunchanged>>

\* The instance is constructed.
IsConstructed == ctor.pc \in {"done", "live"}

\* A call of set_settings(key=value) on the constructed instance; calls
\* with several keys are the ones __init__ makes.
call_set_settings ==
  /\ IsConstructed
  /\ \E settings \in OneKeyword :
       \E r \in {set_settings(attrs, [avconv |-> cmd_avconv, vlc |-> cmd_vlc],
                             settings)} :
          /\ attrs' = r.attrs
          /\ cmd_avconv' = r.cmds.avconv
          /\ cmd_vlc' = r.cmds.vlc
  /\ ctor' = Live
  /\ warned' = FALSE
  /\ UNCHANGED <<COMMANDS, cfg_file, setunchanged>>

\* A call of load_settings() on the constructed instance.
call_load_settings ==
  /\ IsConstructed
  /\ \E r \in {load_settings(attrs, [avconv |-> cmd_avconv, vlc |-> cmd_vlc],
                            cfg_file)} :
        /\ attrs' = r.attrs
        /\ cmd_avconv' = r.cmds.avconv
        /\ cmd_vlc' = r.cmds.vlc
        /\ warned' = r.warned
  /\ ctor' = Live
  /\ UNCHANGED <<COMMANDS, cfg_file, setunchanged>>

\* A call of save_settings() on the constructed instance.
call_save_settings ==
  /\ IsConstructed
  /\ cfg_file' = save_settings(attrs, cfg_file).file
  /\ ctor' = Live
  /\ warned' = FALSE
  /\ UNCHANGED <<COMMANDS, attrs, cmd_avconv, cmd_vlc, setunchanged>>

(***************************************************************************)
(* gui.DSGui and gui.show_gui                                              *)
(***************************************************************************)

\* Tk's main loop waits for an event: no callback is running.
GuiIdle == top.fn = "show_gui" /\ top.pc = "mainloop"

\* The button is pressed: Tk calls toggle_stream().
gui_press ==
  /\ GuiIdle
  /\ (button = "Start Stream") => (nspawned + 2 <= MaxSpawn)
  /\ stack' = Call(top, Frame("toggle_stream", "test"))
  /\ UNCHANGED <<COMMANDS, procvars, exc, clivars, guivars, setvars>>

\* The window is closed: Tk calls quit(), the WM_DELETE_WINDOW handler.
gui_close ==
  /\ GuiIdle
  /\ stack' = Call(top, Frame("quit", "stop"))
  /\ UNCHANGED <<COMMANDS, procvars, exc, clivars, guivars, setvars>>

\* Lines 58-60 and 67: the test of the button's text and the call it makes.
toggle_stream_test ==
  /\ top.fn = "toggle_stream" /\ top.pc = "test"
  /\ IF button = "Start Stream"
     THEN /\ stack' = Call([top EXCEPT !.pc = "started"],
                           Frame("start", "check"))
          /\ exc' = "none"
     ELSE /\ stack' = Call([top EXCEPT !.pc = "stopped"], StopFrame)
          /\ exc' = exc
  /\ UNCHANGED <<COMMANDS, procvars, clivars, guivars, setvars>>

\* Lines 61-65: start() returned and the button reads 'Stop Stream'; or it
\* raised DesktopStreamerError: return_code is 1, the error is shown and
\* quit() called; any other exception leaves the callback and Tk goes on.
toggle_stream_started ==
  /\ top.fn = "toggle_stream" /\ top.pc = "started"
  /\ IF exc = "ok"
     THEN /\ button' = "Stop Stream"
          /\ return_code' = return_code
          /\ stack' = Pop
     ELSE IF exc = "DesktopStreamerError"
     THEN /\ button' = button
          /\ return_code' = 1
          /\ stack' = Call([top EXCEPT !.pc = "return"], Frame("quit", "stop"))
     ELSE /\ button' = button
          /\ return_code' = return_code
          /\ stack' = Pop
  /\ UNCHANGED <<COMMANDS, procvars, exc, clivars, setvars>>

\* Line 68: stop() returned and the button reads 'Start Stream'.
toggle_stream_stopped ==
  /\ top.fn = "toggle_stream" /\ top.pc = "stopped"
  /\ button' = "Start Stream"
  /\ stack' = Pop
  /\ UNCHANGED <<COMMANDS, procvars, exc, clivars, return_code, setvars>>

\* Line 65 has returned: toggle_stream() returns.
toggle_stream_return ==
  /\ top.fn = "toggle_stream" /\ top.pc = "return"
  /\ stack' = Pop
  /\ UNCHANGED <<COMMANDS, procvars, exc, clivars, guivars, setvars>>

\* quit() that leaves the streamer as it is.
quit_stop_skipped ==
  /\ top.fn = "quit" /\ top.pc = "stop"
  /\ stack' = SetTop([top EXCEPT !.pc = "master_quit"])
  /\ UNCHANGED <<COMMANDS, procvars, exc, clivars, guivars, setvars>>

\* Line 75: self.streamer.stop().
quit_stop ==
  /\ top.fn = "quit" /\ top.pc = "stop"
  /\ stack' = Call([top EXCEPT !.pc = "master_quit"], StopFrame)
  /\ UNCHANGED <<COMMANDS, procvars, exc, clivars, guivars, setvars>>

\* Line 76: self.master.quit() tells the main loop to end once the running
\* callback has returned; quit() returns.
quit_master_quit ==
  /\ top.fn = "quit" /\ top.pc = "master_quit"
  /\ stack' = [Pop EXCEPT ![1] = [@ EXCEPT !.pc = "quitting"]]
  /\ UNCHANGED <<COMMANDS, procvars, exc, clivars, guivars, setvars>>

\* Lines 86-87: mainloop() has ended; return gui.return_code.
gui_return ==
  /\ top.fn = "show_gui" /\ top.pc = "quitting"
  /\ stack' = SetTop([top EXCEPT !.pc = "return"])
  /\ retcode' = {return_code}
  /\ UNCHANGED <<COMMANDS, procvars, exc, handler, sigints, guivars, setvars>>

(***************************************************************************)
(* Specifications                                                          *)
(***************************************************************************)

\* No process was started yet.
InitProcesses ==
  /\ proc_avconv = NoProc
  /\ proc_vlc = NoProc
  /\ procs = [p \in Pids |-> Unborn]
  /\ nspawned = 0
  /\ generation = 0
  /\ pipes = {}
  /\ exc = "none"
  /\ sigints = 0
  /\ retcode = {}

\* An instance constructed with the default settings.
InitSupervisor ==
  /\ \E found \in SUBSET CmdNames :
       COMMANDS = [cmd \in CmdNames |-> get_command_path(cmd, found)]
  /\ attrs = Constructed(Empty)
  /\ cmd_avconv = setup(attrs).avconv
  /\ cmd_vlc = setup(attrs).vlc
  /\ cfg_file = NoDir
  /\ ctor = Live
  /\ warned = FALSE
  /\ button = "Start Stream"
  /\ return_code = 0
  /\ InitProcesses

Init ==
  /\ InitSupervisor
  /\ stack = <<Frame("caller", "idle")>>
  /\ handler = FALSE

StartStep ==
  \/ start_check
  \/ start_popen_avconv
  \/ start_assign_avconv
  \/ start_popen_vlc
  \/ start_assign_vlc
  \/ start_close

StopStep ==
  \/ stop_while
  \/ stop_signal
  \/ stop_sleep

Next ==
  \/ call_start
  \/ call_stop
  \/ setup_command_paths
  \/ start_check
  \/ start_popen_avconv
  \/ start_assign_avconv
  \/ start_popen_vlc
  \/ start_assign_vlc
  \/ start_close
  \/ stop_while
  \/ stop_signal
  \/ stop_sleep
  \/ \E p \in Pids : exit_self(p)
  \/ \E p \in Pids : exit_on_terminate(p)
  \/ \E p \in Pids : exit_on_kill(p)

Spec == Init /\ [][Next]_vars

InitCli ==
  /\ InitSupervisor
  /\ stack = <<Frame("show_cli", "signal")>>
  /\ handler = FALSE

NextCli ==
  \/ cli_signal
  \/ cli_start
  \/ cli_started
  \/ cli_return
  \/ sigint
  \/ start_check
  \/ start_popen_avconv
  \/ start_assign_avconv
  \/ start_popen_vlc
  \/ start_assign_vlc
  \/ start_close
  \/ stop_while
  \/ stop_signal
  \/ stop_sleep
  \/ \E p \in Pids : exit_self(p)
  \/ \E p \in Pids : exit_on_terminate(p)
  \/ \E p \in Pids : exit_on_kill(p)

SpecCli == InitCli /\ [][NextCli]_vars

\* show_gui() has built the window and entered the main loop.
InitGui ==
  /\ InitSupervisor
  /\ stack = <<Frame("show_gui", "mainloop")>>
  /\ handler = FALSE

NextGui ==
  \/ gui_press
  \/ gui_close
  \/ toggle_stream_test
  \/ toggle_stream_started
  \/ toggle_stream_stopped
  \/ toggle_stream_return
  \/ quit_stop
  \/ quit_master_quit
  \/ gui_return
  \/ start_check
  \/ start_popen_avconv
  \/ start_assign_avconv
  \/ start_popen_vlc
  \/ start_assign_vlc
  \/ start_close
  \/ stop_while
  \/ stop_signal
  \/ stop_sleep
  \/ \E p \in Pids : exit_self(p)
  \/ \E p \in Pids : exit_on_terminate(p)
  \/ \E p \in Pids : exit_on_kill(p)

SpecGui == InitGui /\ [][NextGui]_vars

\* __init__ is called: COMMANDS is as the class defines it, the instance
\* has no attribute, and the configuration path is in any of its states.
InitSettings ==
  /\ COMMANDS = [cmd \in CmdNames |-> None]
  /\ attrs = Empty
  /\ cmd_avconv = <<>>
  /\ cmd_vlc = <<>>
  /\ cfg_file \in {NoDir, DirOnly, NoPermission} \cup InitialFiles
  /\ ctor = [pc |-> "paths", load |-> FALSE, save |-> FALSE,
             passed |-> Empty, file0 |-> cfg_file]
  /\ warned = FALSE
  /\ button = "Start Stream"
  /\ return_code = 0
  /\ InitProcesses
  /\ stack = <<Frame("caller", "idle")>>
  /\ handler = FALSE

NextSettings ==
  \/ init_paths
  \/ init_defaults
  \/ init_load
  \/ init_settings
  \/ init_save
  \/ init_setup
  \/ call_set_settings
  \/ call_load_settings
  \/ call_save_settings

SpecSettings == InitSettings /\ [][NextSettings]_vars

\* The control thread keeps running and the system delivers every kill.
FairSpec ==
  /\ Spec
  /\ WF_vars(StopStep)
  /\ \A p \in Pids : WF_vars(exit_on_kill(p))

(***************************************************************************)
(* Properties of the supervisor                                            *)
(***************************************************************************)

StopFrames == {d \in DOMAIN stack : stack[d].fn = "stop"}
InStop == StopFrames # {}

\* The control thread took a step of the frame on top of the stack.
TopStepped == stack' # stack
\* The stop() call on top of the stack returns in this step.
StopReturns == top.fn = "stop" /\ TopStepped /\ stack' = Pop
\* The child a Popen has created and start() has not yet assigned.
InFlight == {stack[d].popen : d \in DOMAIN stack} \ {NoProc}

\* C1: every child that is alive belongs to the newest start() generation,
\* so a start() that spawns never leaves a child of an earlier generation
\* alive; the alive children are the tracked ones (or the one Popen just
\* returned), at most two of them, forming at most one pair.
C1_OneGeneration ==
  /\ \A p \in Alive : procs[p].gen = generation
  /\ Alive \subseteq processes \cup InFlight
  /\ Cardinality(running_processes) <= 2
  /\ Cardinality(Alive) <= 2

\* C1 witness: a second start() found children running, stopped them and has
\* spawned its own pair.
C1_Witness ==
  /\ top.fn = "start" /\ top.pc = "close"
  /\ top.atcall # {}
  /\ generation = 2
  /\ Alive = {proc_avconv, proc_vlc}

\* C2: a step of start() taken while a command is missing raises
\* DesktopStreamerError, spawns nothing, leaves the handles, the children
\* and the pipe as they were and does not call stop(); no child is ever
\* spawned while a command is missing.
C2_MissingRaises ==
  [][/\ (top.fn = "start" /\ top.pc = "check" /\ missing_commands # {}
           /\ TopStepped)
          => (/\ exc' = "DesktopStreamerError"
              /\ stack' = Pop
              /\ UNCHANGED procvars)
     /\ (nspawned' # nspawned) => (missing_commands = {})]_vars

\* C2 witness: start() has raised while children of an earlier start() run.
C2_Witness ==
  /\ top.fn = "caller"
  /\ exc = "DesktopStreamerError"
  /\ missing_commands # {}
  /\ Cardinality(running_processes) = 2

\* What one stop() call has done so far is ordered: terminate first, kill
\* only after a terminate cycle and a sleep, one sleep per cycle.
StopOrdered(f) ==
  /\ f.terminated <=> (f.cycles >= 1)
  /\ (f.terms # {}) => f.terminated
  /\ (f.kills # {}) => (f.cycles >= 2 /\ f.sleeps >= 1)
  /\ (f.pc = "sleep") => (f.cycles >= 1)
  /\ (f.cycles < MaxCount)
       => (f.sleeps = f.cycles - (IF f.pc = "sleep" THEN 1 ELSE 0))

\* p has a kill signal pending in the given process table.
KillPending(table, p) == table[p].st = "running" /\ table[p].sig = "kill"
TermPending(table, p) == table[p].st = "running" /\ table[p].sig = "term"

\* C3: in every stop() call the first signalling cycle terminates exactly
\* the processes running at that moment and kills nothing; every later
\* cycle kills exactly the processes still running and terminates nothing;
\* a kill is preceded by a terminate cycle and a sleep of the same call, and
\* every cycle is followed by one sleep.
C3_SignalOrder ==
  /\ [](\A d \in StopFrames : StopOrdered(stack[d]))
  /\ [][(top.fn = "stop" /\ top.pc = "signal" /\ TopStepped)
          => /\ stack'[Len(stack)].pc = "sleep"
             /\ IF top.cycles = 0
                THEN /\ \A p \in Pids :
                          /\ KillPending(procs', p) => KillPending(procs, p)
                          /\ TermPending(procs', p)
                               <=> (\/ TermPending(procs, p)
                                    \/ (p \in running_processes
                                          /\ ~KillPending(procs, p)))
                     /\ stack'[Len(stack)].terms = running_processes
                     /\ stack'[Len(stack)].kills = {}
                ELSE /\ \A p \in Pids :
                          /\ KillPending(procs', p)
                               <=> (\/ KillPending(procs, p)
                                    \/ p \in running_processes)
                          /\ TermPending(procs', p) => TermPending(procs, p)
                     /\ stack'[Len(stack)].terms = top.terms
                     /\ top.sleeps >= 1]_vars

\* C3 witness: a stop() call is in its third cycle, a kill cycle, after a
\* terminate cycle, a kill cycle and two sleeps.
C3_Witness ==
  /\ top.fn = "stop" /\ top.pc = "sleep"
  /\ top.cycles = 3 /\ top.sleeps = 2
  /\ top.terms # {} /\ top.kills # {}
  /\ \E p \in running_processes : procs[p].sig = "kill"

\* C4: every stop() call returns, given that the control thread keeps
\* running and a killed process ends; and when it returns no tracked
\* process is running.
C4_StopReturns ==
  /\ InStop ~> ~InStop
  /\ [][StopReturns => running_processes' = {}]_vars

\* C4 witness: a stop() call that found both processes running and had to
\* kill is about to return.
C4_Witness ==
  /\ top.fn = "stop" /\ top.pc = "while"
  /\ Cardinality(top.atcall) = 2
  /\ top.kills # {}
  /\ running_processes = {}

\* Both processes ran when stop() was called, ended only because they were
\* killed, and none of them outlived the sleep that followed its kill.
BothIgnoreTerminate(f) ==
  /\ Cardinality(f.atcall) = 2
  /\ \A p \in f.atcall : procs[p].cause = "kill"
  /\ ~f.late

\* C5: a stop() call that returns after both processes ignored terminate and
\* died on kill within the grace period has run exactly two cycles and two
\* sleeps: it terminated both, then killed both, and nothing is running.
C5_TwoCycles ==
  (top.fn = "stop" /\ top.pc = "while" /\ running_processes = {}
     /\ BothIgnoreTerminate(top))
    => /\ top.cycles = 2
       /\ top.sleeps = 2
       /\ top.terms = top.atcall
       /\ top.kills = top.atcall

\* C5 witness: such a stop() call is about to return.
C5_Witness ==
  /\ top.fn = "stop" /\ top.pc = "while" /\ running_processes = {}
  /\ BothIgnoreTerminate(top)
  /\ top.cycles = 2

\* C6: a stop() call made while nothing is running never signals and never
\* sleeps: its only step is to return, with the handles, the children and
\* the pipe unchanged; and since every stop() returns with nothing running,
\* a stop() that follows a stop() is such a call.
C6_StopNoop ==
  /\ [](\A d \in StopFrames :
          (stack[d].atcall = {})
            => /\ stack[d].pc = "while"
               /\ stack[d].cycles = 0 /\ stack[d].sleeps = 0
               /\ stack[d].terms = {} /\ stack[d].kills = {})
  /\ [][(top.fn = "stop" /\ top.atcall = {} /\ TopStepped)
          => (stack' = Pop /\ UNCHANGED <<COMMANDS, procvars, exc>>)]_vars
  /\ [][StopReturns => running_processes' = {}]_vars

\* C6 witness: stop() is called after both processes of a start() exited.
C6_Witness ==
  /\ top.fn = "stop" /\ top.atcall = {}
  /\ proc_avconv # NoProc /\ proc_vlc # NoProc
  /\ exc = "ok"

(***************************************************************************)
(* Properties of show_cli                                                  *)
(***************************************************************************)

\* C9: show_cli() returns 1 exactly when start() raised DesktopStreamerError,
\* which happens only with a command missing and nothing spawned; it returns
\* 0 only after start() succeeded and signal.pause() was ended by an
\* interrupt whose handler ran stop() to completion, so that no tracked
\* process is running when 0 is returned.
C9_CliReturnCode ==
  /\ [](/\ (retcode = {1})
             <=> (stack[1].pc = "return" /\ exc = "DesktopStreamerError")
        /\ (exc = "DesktopStreamerError")
             => (missing_commands # {} /\ nspawned = 0)
        /\ (stack[1].pc = "return") => (retcode # {})
        /\ (retcode = {0})
             => (exc = "ok" /\ sigints >= 1 /\ running_processes = {})
        /\ (top.fn = "show_cli" /\ top.pc = "resumed")
             => (running_processes = {}))
  /\ [][(stack[1].pc = "pause" /\ stack'[1].pc # "pause")
          => /\ stack'[1].pc = "resumed"
             /\ sigints' = sigints + 1
             /\ Len(stack') = 2 /\ stack'[2].fn = "stop"]_vars

\* C9 witness: show_cli() has returned 0 after the handler's stop() had to
\* kill a process.
C9_Witness ==
  /\ retcode = {0}
  /\ \E p \in processes : procs[p].cause = "kill"

(***************************************************************************)
(* Properties of the settings and the command lines                        *)
(***************************************************************************)

\* __init__ read the settings file: load was set and the file was there.
FileLoaded == ctor.load /\ ctor.file0.st = "file"

\* The sizes the encoder command line names: every word after a "-s".
SizeArgs(cmd) == {cmd[i + 1] : i \in {j \in 1..(Len(cmd) - 1) : cmd[j] = "-s"}}

\* C7: an instance constructed without an output resolution (none given by
\* the caller, none read from the settings file) has res_out equal to
\* res_in, and its encoder command scales to the size it captures at.
C7_ResOutFollowsResIn ==
  (ctor.pc = "done" /\ "res_out" \notin DOMAIN ctor.passed /\ ~FileLoaded)
    => /\ attrs["res_out"] = attrs["res_in"]
       /\ Cardinality(SizeArgs(cmd_avconv)) <= 1

\* A set_settings() call has completed since the instance was created.
SettingsStored == ctor.pc \in {"load", "settings", "save", "setup", "done", "live"}

\* C8: after every set_settings() and load_settings() call, in __init__ and
\* after it, the stored command lines are the ones setup() builds from the
\* current settings; a call on the constructed instance that leaves the
\* settings as they were leaves the command lines as they were.
C8_CommandsFollowSettings ==
  /\ [](SettingsStored
          => /\ cmd_avconv = setup(attrs).avconv
             /\ cmd_vlc = setup(attrs).vlc)
  /\ [][(IsConstructed /\ attrs' = attrs)
          => (cmd_avconv' = cmd_avconv /\ cmd_vlc' = cmd_vlc)]_vars

\* C8 witness: calls on the constructed instance have changed more settings
\* than __init__ can, and the streamer command serves the new port.
C8_Witness ==
  /\ ctor.pc = "live"
  /\ ~attrs["audio"] /\ ~attrs["video"]
  /\ attrs["framerate"] = Num(30)
  /\ attrs["port"] = Num(8080)
  /\ cmd_vlc[Len(cmd_vlc)] = "--sout=#std{access=http,mux=ts,dst=:8080}"
  /\ Len(cmd_avconv) = 6

\* The value the layers give key k: the one passed, else the one loaded,
\* else the default.
Layered(k) ==
  IF k \in DOMAIN ctor.passed THEN ctor.passed[k]
  ELSE IF FileLoaded /\ k \in DOMAIN ctor.file0.text
  THEN json_load(k, ctor.file0.text[k])
  ELSE Defaults[k]

\* Attribute k holds the value v: a number as an int, a resolution as it
\* is, and for an explicit None the size it stands for.
HoldsValue(k, v) ==
  IF k \in NumKeys THEN attrs[k] = Num(v.n)
  ELSE IF k \in ResKeys /\ v = None
  THEN (IF k \notin DOMAIN ctor.passed THEN attrs[k] # None
        ELSE IF k = "res_in" THEN attrs[k] = get_screensize
        ELSE attrs[k] = attrs["res_in"])
  ELSE attrs[k] = v

\* C10: when __init__ returns, every setting holds the value passed for it,
\* else the value of the settings file if load was set and the file was
\* read, else the default; the file holds these final values if save was
\* set and is as it was found otherwise.
C10_SettingsLayered ==
  (ctor.pc = "done")
    => /\ \A k \in SettingKeys : HoldsValue(k, Layered(k))
       /\ cfg_file = IF ctor.save THEN File(dump(settings_of(attrs)))
                     ELSE ctor.file0

\* C10 witness: __init__ has loaded a file, was passed settings and saved;
\* one setting shows a loaded value that is not the default, another a
\* passed value that is not the loaded one.
C10_Witness ==
  /\ ctor.pc = "done" /\ ctor.save /\ FileLoaded
  /\ \E k \in SettingKeys \ DOMAIN ctor.passed :
       attrs[k] # Constructed(Empty)[k]
  /\ \E k \in DOMAIN ctor.passed :
       attrs[k] # json_load(k, ctor.file0.text[k])

\* open(self.cfg_file) raises IOError: the file is absent or unreadable.
CannotOpen(f) == f.st # "file"

\* C11: a load_settings() call that cannot open the settings file prints the
\* warning and changes neither a setting nor a command line nor the file; in
\* __init__ construction goes on with the passed settings, and when it
\* returns every setting holds the value passed for it, else its default.
C11_FailedLoadHarmless ==
  /\ [][(ctor.pc = "load" /\ ctor'.pc # "load" /\ ctor'.load
           /\ CannotOpen(cfg_file))
          => /\ ctor'.pc = "settings"
             /\ warned'
             /\ attrs' = attrs
             /\ cmd_avconv' = cmd_avconv /\ cmd_vlc' = cmd_vlc
             /\ cfg_file' = cfg_file]_vars
  /\ [][(IsConstructed /\ warned')
          => /\ CannotOpen(cfg_file)
             /\ attrs' = attrs
             /\ cmd_avconv' = cmd_avconv /\ cmd_vlc' = cmd_vlc
             /\ cfg_file' = cfg_file]_vars
  /\ []((ctor.pc = "done" /\ ctor.load /\ CannotOpen(ctor.file0))
          => /\ warned
             /\ \A k \in SettingKeys :
                  IF k \in DOMAIN ctor.passed
                  THEN HoldsValue(k, ctor.passed[k])
                  ELSE attrs[k] = Constructed(Empty)[k])

\* C11 witness: __init__ was told to load, found no file, warned and has
\* returned with a passed setting that is not the default.
C11_Witness ==
  /\ ctor.pc = "done" /\ ctor.load /\ ctor.file0.st \in {"nodir", "noperm"}
  /\ warned
  /\ attrs # Constructed(Empty)

(***************************************************************************)
(* Properties of the pipe between the two processes                        *)
(***************************************************************************)

\* The pipes the control thread closes in this step.
Closed == pipes \ pipes'

\* The standard input of p is at end-of-file: it reads the stdout pipe of a
\* child that has exited, the only holder of the pipe's write end.
EndOfFile(p) ==
  /\ procs[p].stdin # NoProc
  /\ procs[procs[p].stdin].st = "exited"

\* C12: a child is spawned only by start(): first the encoder, whose stdout
\* pipe the supervisor then holds; next the streamer, while the encoder of
\* this start() is assigned and its pipe still open, with that pipe as its
\* standard input; the pipe is closed only after the streamer was spawned
\* and assigned (the only other pipe released is that of an encoder of an
\* earlier start(), when its handle is replaced).  After start() has
\* returned the supervisor holds no pipe, and once the encoder has exited
\* the streamer's standard input is at end-of-file.
C12_PipeWiring ==
  /\ [][(nspawned' # nspawned)
          => /\ top.fn = "start"
             /\ IF top.pc = "popen_avconv"
                THEN /\ pipes' = pipes \cup {nspawned'}
                     /\ procs'[nspawned'].stdin = NoProc
                ELSE /\ top.pc = "popen_vlc"
                     /\ proc_avconv \in pipes
                     /\ procs[proc_avconv].gen = generation
                     /\ procs'[nspawned'].gen = generation
                     /\ procs'[nspawned'].stdin = proc_avconv
                     /\ pipes' = pipes]_vars
  /\ [][(Closed # {})
          => /\ top.fn = "start"
             /\ Closed = {proc_avconv}
             /\ IF top.pc = "close"
                THEN /\ proc_vlc # NoProc
                     /\ procs[proc_vlc].gen = generation
                     /\ procs[proc_vlc].stdin = proc_avconv
                     /\ exc' = "ok"
                ELSE /\ top.pc = "assign_avconv"
                     /\ procs[proc_avconv].gen < generation]_vars
  /\ []((exc = "ok")
          => /\ pipes = {}
             /\ procs[proc_vlc].stdin = proc_avconv
             /\ (procs[proc_avconv].st = "exited") => EndOfFile(proc_vlc))

\* C12 witness: the second successful start() has returned, the supervisor
\* holds no pipe, the encoder has exited and the streamer, still running,
\* reads end-of-file.
C12_Witness ==
  /\ top.fn = "caller" /\ exc = "ok" /\ generation = 2
  /\ pipes = {}
  /\ procs[proc_avconv].st = "exited"
  /\ procs[proc_vlc].st = "running" /\ EndOfFile(proc_vlc)

(***************************************************************************)
(* Properties of the GUI                                                   *)
(***************************************************************************)

\* toggle_stream() makes its call in this step; the function it calls.
Pressed == top.fn = "toggle_stream" /\ top.pc = "test" /\ TopStepped
Called == stack'[Len(stack')].fn

\* No Popen of the last start() call has failed.
NoSpawnFailure == exc # "OSError"

\* C13: a press stops the stream if it is running and starts it otherwise,
\* whatever presses and process exits came before; and while the GUI waits
\* for a press the button reads 'Stop Stream' exactly when the stream is
\* running, 'Start Stream' exactly when it is not (spawn failures set
\* aside).
C13_ToggleFollowsStream ==
  /\ [][(Pressed /\ NoSpawnFailure)
          => (Called = IF running_processes # {} THEN "stop" ELSE "start")]_vars
  /\ []((GuiIdle /\ NoSpawnFailure)
          => /\ button \in {"Start Stream", "Stop Stream"}
             /\ (button = "Stop Stream") <=> (running_processes # {}))

\* The main loop is told to quit in this step.
ToldToQuit == stack[1].pc = "mainloop" /\ stack'[1].pc = "quitting"

\* C14: the main loop is told to quit only by quit(), after its stop() call
\* has returned and with no tracked process running; quit() runs when the
\* window is closed and when start() raised DesktopStreamerError, after
\* which no further start() is made; when show_gui() has returned no tracked
\* process is running and its value is 1 if start() raised
\* DesktopStreamerError, else 0.
C14_GuiQuitStops ==
  /\ [][ToldToQuit => /\ top.fn = "quit" /\ top.pc = "master_quit"
                      /\ running_processes = {}]_vars
  /\ [][(top.fn = "toggle_stream" /\ top.pc = "started" /\ TopStepped
           /\ exc = "DesktopStreamerError")
          => (Called = "quit" /\ return_code' = 1)]_vars
  /\ [](/\ return_code \in {0, 1}
        /\ (return_code = 1)
             <=> (exc = "DesktopStreamerError"
                    /\ ~(top.fn = "toggle_stream" /\ top.pc = "started"))
        /\ (exc = "DesktopStreamerError") => (nspawned = 0 /\ ~GuiIdle))
  /\ []((stack[1].pc \in {"quitting", "return"}) => running_processes = {})
  /\ []((stack[1].pc = "return")
          => /\ retcode = {IF exc = "DesktopStreamerError" THEN 1 ELSE 0}
             /\ running_processes = {})

\* C14 witness: the window was closed while the stream ran, quit()'s stop()
\* had to kill a process, and show_gui() has returned 0.
C14_Witness ==
  /\ stack[1].pc = "return" /\ retcode = {0}
  /\ button = "Stop Stream"
  /\ \E p \in processes : procs[p].cause = "kill"

(***************************************************************************)
(* Properties of interrupts and of failed spawns                           *)
(***************************************************************************)

\* show_cli() is blocked in signal.pause().
CliBlocked == top.fn = "show_cli" /\ top.pc = "pause"

\* C15: once an interrupt was delivered, at whatever point after the
\* handler was installed, show_cli() is never blocked in signal.pause()
\* while a tracked process is running.
C15_InterruptEndsCli ==
  (sigints >= 1) => ~(CliBlocked /\ running_processes # {})

\* C16: after a start() that failed in Popen no tracked process is running:
\* the supervisor is idle.
C16_FailedSpawnIdle ==
  (top.fn = "caller" /\ exc = "OSError") => running_processes = {}

(***************************************************************************)
(* Properties of saving and loading                                        *)
(***************************************************************************)

\* The attributes a default instance has after load_settings() read f.
Reloaded(f) ==
  load_settings(Constructed(Empty), setup(Constructed(Empty)), f).attrs

\* The settings were saved and can be read back as they are.
RoundTrip == cfg_file.st = "file" /\ Reloaded(cfg_file) = attrs

\* C17: save_settings() called by __init__ succeeds and writes the current
\* settings whether the configuration directory is absent, present without
\* the file, or holds the file; and the file it wrote, loaded into an
\* instance with default settings, gives the settings that were saved.
C17_SaveLoadRoundTrip ==
  /\ [][(ctor.pc = "save" /\ ctor'.pc # "save" /\ ctor'.save
           /\ cfg_file.st \in {"nodir", "dir", "file"})
          => /\ ctor'.pc = "setup"
             /\ cfg_file' = File(dump(settings_of(attrs)))]_vars
  /\ []((ctor.pc \in {"setup", "done"} /\ ctor.save) => RoundTrip)

====
